---- MODULE Spec2Model ----
(***************************************************************************)
(* Centriole scoring (centrack / cenfind): the assignment of detected foci *)
(* to nuclei and the per-field accuracy metrics.                           *)
(*                                                                         *)
(* Three functions of the repository are called assign:                    *)
(*   assign_commands_score  src/centrack/commands/score.py  nearest nucleus*)
(*                          kept only above the -50 threshold              *)
(*   assign_centrack_score  centrack/score.py  nearest nucleus, always     *)
(*   assign_measure         src/cenfind/core/measure.py  every focus above *)
(*                          the vicinity, nucleus by nucleus               *)
(*                                                                         *)
(* Distances are Euclidean.  To stay in the integers every signed distance *)
(* d is carried as Signed2(d) = d * |d| (the squared distance with the     *)
(* sign of d); x |-> x * |x| is strictly increasing, so max() and every    *)
(* comparison d > v is decided exactly as on d itself, by comparing        *)
(* Signed2(d) with Signed2(v).                                             *)
(***************************************************************************)
EXTENDS Integers, Sequences, FiniteSets, TLC

VARIABLES
    foci,            \* the caller's list of Centre objects of one field
    nuclei,          \* the caller's list of Contour objects of one field
    vicinity,        \* the vicinity argument of measure.assign
    log_nearest,     \* outcomes of the calls of commands/score.py assign
    log_force,       \* outcomes of the calls of centrack/score.py assign
    log_measure,     \* outcomes of the calls of measure.assign
    annotation,      \* annotated points handed to field_metrics
    predictions,     \* predicted points handed to field_metrics
    tolerance,       \* cutoff distance handed to field_metrics
    perf,            \* the dictionaries the calls of field_metrics returned
    matching_calls,  \* number of calls of points_matching made so far
    matchings,       \* what points_matching returned to field_metrics, call by call
    detections,      \* what the calls of run_detection came to
    score_log,       \* what the calls of field_score returned
    save_log,        \* what the calls of save_foci wrote or raised
    df,              \* the score records handed to field_score_frequency
    freq,            \* the tables the calls of field_score_frequency returned
    geo_in,          \* the contour, corners and position the ROI objects are built of
    geometry,        \* the values computed from the ROI objects, kind by kind
    batch,           \* the command line run: which cli, and the fields of the dataset
    cli,             \* the batch loop of that cli: position, records, log, files
    dirs,            \* the model paths that are directories
    cache,           \* the cache of the memoized get_model
    constructed,     \* the model paths SpotNet was constructed of, in order
    calls,           \* outcomes of the get_model calls made one after the other
    threads,         \* the concurrent callers of get_model, each with its position
    service,         \* the plane and what the external detection services return for it
    detected         \* what the detectors returned for it, detector by detector

vars == <<foci, nuclei, vicinity, log_nearest, log_force, log_measure,
          annotation, predictions, tolerance, perf, matching_calls,
          matchings, detections, score_log, save_log, df, freq, geo_in, geometry,
          batch, cli, dirs, cache, constructed, calls, threads, service, detected>>

assign_vars == <<foci, nuclei, vicinity, log_nearest, log_force, log_measure>>
metrics_vars == <<annotation, predictions, tolerance, perf, matching_calls,
                  matchings, detections>>
score_vars == <<score_log, save_log>>
frequency_vars == <<df, freq>>
geometry_vars == <<geo_in, geometry>>
batch_vars == <<batch, cli>>
model_vars == <<dirs, cache, constructed, calls, threads>>
detect_vars == <<service, detected>>

---------------------------------------------------------------------------
(* Bounds of the exploration *)

MaxFoci == 2
MaxNuclei == 2
MaxCalls == 2
MaxPoints == 2
MaxRecords == 4
MaxFields == 3
MaxModelCalls == 3
MaxCallers == 2
MaxDetections == 2

---------------------------------------------------------------------------
(* Inputs *)

\* Positions a detected focus may have.
Positions == { <<10, 10>>, <<30, 10>>, <<110, 10>>, <<100, 100>> }

\* Closed contours a nucleus may have: axis-aligned squares given by their
\* four vertices in tracing order (the first is the square of scenario C).
ContourShapes ==
    { << <<0, 0>>, <<0, 20>>, <<20, 20>>, <<20, 0>> >>,
      << <<40, 0>>, <<40, 20>>, <<60, 20>>, <<60, 0>> >>,
      << <<90, 90>>, <<90, 130>>, <<130, 130>>, <<130, 90>> >> }

Vicinities == { -50, -10, 10 }

SeqsUpTo(S, n) == UNION { [1..k -> S] : k \in 0..n }

Injective(s) == \A i, j \in 1..Len(s) : s[i] = s[j] => i = j

\* Centre(position, idx): idx is the position in the detector's output.
Centre(position, idx) == [position |-> position, idx |-> idx]

\* Contour(contour, idx) with centrioles = field(default_factory=list).
Contour(contour, idx) == [contour |-> contour, idx |-> idx, centrioles |-> <<>>]

FociLists ==
    { [i \in 1..Len(ps) |-> Centre(ps[i], i - 1)] : ps \in SeqsUpTo(Positions, MaxFoci) }

NucleiLists ==
    { [i \in 1..Len(cs) |-> Contour(cs[i], i - 1)] :
        cs \in { s \in SeqsUpTo(ContourShapes, MaxNuclei) : Injective(s) } }

---------------------------------------------------------------------------
(* Signed distance of a point to a contour *)

Abs(x) == IF x < 0 THEN -x ELSE x

Signed2(d) == d * Abs(d)

MinOf(S) == CHOOSE m \in S : \A x \in S : m <= x

MaxOf(S) == CHOOSE m \in S : \A x \in S : x <= m

Clamp(v, a, b) == MaxOf({MinOf({a, b}), MinOf({v, MaxOf({a, b})})})

\* Squared distance of pt to the axis-aligned segment a-b.
SegmentDist2(pt, a, b) ==
    LET q == IF a[1] = b[1]
             THEN <<a[1], Clamp(pt[2], a[2], b[2])>>
             ELSE <<Clamp(pt[1], a[1], b[1]), a[2]>>
    IN (pt[1] - q[1]) * (pt[1] - q[1]) + (pt[2] - q[2]) * (pt[2] - q[2])

\* cv2.pointPolygonTest(contour, pt, measureDist=True): the distance of pt to
\* the nearest edge, positive inside, negative outside, zero on an edge;
\* returned as Signed2 of that distance.
pointPolygonTest(contour, pt) ==
    LET n == Len(contour)
        d2 == MinOf({ SegmentDist2(pt, contour[i], contour[(i % n) + 1]) : i \in 1..n })
        xs == { contour[i][1] : i \in 1..n }
        ys == { contour[i][2] : i \in 1..n }
        inside == /\ MinOf(xs) < pt[1] /\ pt[1] < MaxOf(xs)
                  /\ MinOf(ys) < pt[2] /\ pt[2] < MaxOf(ys)
    IN IF inside THEN d2 ELSE -d2

\* pointPolygonTest on the contours and positions of the inputs, evaluated
\* once.
PointPolygonTests ==
    [contour \in ContourShapes, pt \in Positions |-> pointPolygonTest(contour, pt)]

\* Centre.centre: (int(row), int(col)) of the position.
centre(c) == c.position

\* cenfind.core.helpers.signed_distance(focus, nucleus)
signed_distance(f, n) == PointPolygonTests[n.contour, centre(f)]

---------------------------------------------------------------------------
(* assign of src/centrack/commands/score.py and of centrack/score.py *)

VicinityThreshold == -50

RECURSIVE max_scan_last(_, _, _)
max_scan_last(distances, i, best) ==
    IF i > Len(distances) THEN best
    ELSE max_scan_last(distances, i + 1,
                       IF distances[i][2] >= best[2] THEN distances[i] ELSE best)

max_key_last(distances) == max_scan_last(distances, 2, distances[1])

RECURSIVE max_scan(_, _, _)
max_scan(distances, i, best) ==
    IF i > Len(distances) THEN best
    ELSE max_scan(distances, i + 1,
                  IF distances[i][2] > best[2] THEN distances[i] ELSE best)

\* max(distances, key=lambda x: x[1]): the first item whose key is maximal.
max_key(distances) == max_scan(distances, 2, distances[1])

\* [(n, cv2.pointPolygonTest(n.contour, c.centre, measureDist=True)) for n in nuclei_list]
distances_of(c, nuclei_list) ==
    [j \in 1..Len(nuclei_list) |->
        <<nuclei_list[j], PointPolygonTests[nuclei_list[j].contour, centre(c)]>>]

nearest_kept_ge(distance) == distance >= Signed2(VicinityThreshold)

\* if nucleus_nearest[1] > -50
nearest_kept(distance) == distance > Signed2(VicinityThreshold)

\* The for loop over foci_list; gated tells the thresholded variant from the
\* forcing one.  ndist counts the calls of pointPolygonTest.
RECURSIVE assign_for(_, _, _, _, _)
assign_for(foci_list, nuclei_list, gated, i, st) ==
    IF i > Len(foci_list) THEN st
    ELSE LET c == foci_list[i]
             nucleus_nearest == max_key(distances_of(c, nuclei_list))
             keep == IF gated THEN nearest_kept(nucleus_nearest[2]) ELSE TRUE
         IN assign_for(foci_list, nuclei_list, gated, i + 1,
                [assigned |-> IF keep
                              THEN Append(st.assigned, <<c, nucleus_nearest[1]>>)
                              ELSE st.assigned,
                 ndist |-> st.ndist + Len(nuclei_list)])

Raised(kind, msg) == [raised |-> kind, msg |-> msg, assigned |-> <<>>, ndist |-> 0]

Returned(st) == [raised |-> "none", msg |-> "", assigned |-> st.assigned, ndist |-> st.ndist]

assign_commands_score_unguarded(foci_list, nuclei_list) ==
    IF Len(foci_list) = 0
    THEN Returned([assigned |-> <<>>, ndist |-> 0])
    ELSE IF Len(nuclei_list) = 0
    THEN Raised("ValueError", "Empty nuclei list")
    ELSE Returned(assign_for(foci_list, nuclei_list, TRUE, 1,
                             [assigned |-> <<>>, ndist |-> 0]))

\* assign(foci_list, nuclei_list) of src/centrack/commands/score.py
assign_commands_score(foci_list, nuclei_list) ==
    IF Len(foci_list) = 0
    THEN Raised("ValueError", "Empty foci list")
    ELSE IF Len(nuclei_list) = 0
    THEN Raised("ValueError", "Empty nuclei list")
    ELSE Returned(assign_for(foci_list, nuclei_list, TRUE, 1,
                             [assigned |-> <<>>, ndist |-> 0]))

assign_centrack_score_gated(foci_list, nuclei_list) ==
    IF Len(foci_list) = 0
    THEN Raised("ValueError", "Empty foci list")
    ELSE IF Len(nuclei_list) = 0
    THEN Raised("ValueError", "Empty nuclei list")
    ELSE Returned(assign_for(foci_list, nuclei_list, TRUE, 1,
                             [assigned |-> <<>>, ndist |-> 0]))

\* assign(foci_list, nuclei_list) of centrack/score.py
assign_centrack_score(foci_list, nuclei_list) ==
    IF Len(foci_list) = 0
    THEN Raised("ValueError", "Empty foci list")
    ELSE IF Len(nuclei_list) = 0
    THEN Raised("ValueError", "Empty nuclei list")
    ELSE Returned(assign_for(foci_list, nuclei_list, FALSE, 1,
                             [assigned |-> <<>>, ndist |-> 0]))

---------------------------------------------------------------------------
(* assign of src/cenfind/core/measure.py *)

copy_alias(l) == [items |-> l, shared |-> TRUE]

\* nuclei.copy(): a new list object holding the same elements; shared tells
\* whether popping from it also pops from the caller's list.
copy(l) == [items |-> l, shared |-> FALSE]

within_vicinity_ge(distance, vic) == distance >= Signed2(vic)

\* if distance > vicinity
within_vicinity(distance, vic) == distance > Signed2(vic)

pairs_append_nonempty(pairs, n, assigned) ==
    IF assigned = <<>> THEN pairs ELSE Append(pairs, <<n, assigned>>)

\* pairs.append((n, assigned))
pairs_append(pairs, n, assigned) == Append(pairs, <<n, assigned>>)

\* for f in foci: ... assigned.append(f)
RECURSIVE measure_for(_, _, _, _, _)
measure_for(foci_list, n, vic, i, assigned) ==
    IF i > Len(foci_list) THEN assigned
    ELSE LET f == foci_list[i]
             distance == signed_distance(f, n)
         IN measure_for(foci_list, n, vic, i + 1,
                IF within_vicinity(distance, vic) THEN Append(assigned, f) ELSE assigned)

\* while _nuclei: n = _nuclei.pop() ...
RECURSIVE measure_while(_, _, _, _)
measure_while(foci_list, _nuclei, vic, pairs) ==
    IF Len(_nuclei) = 0 THEN [pairs |-> pairs, _nuclei |-> _nuclei]
    ELSE LET n == _nuclei[Len(_nuclei)]
             popped == SubSeq(_nuclei, 1, Len(_nuclei) - 1)
             assigned == measure_for(foci_list, n, vic, 1, <<>>)
         IN measure_while(foci_list, popped, vic, pairs_append(pairs, n, assigned))

\* assign(foci, nuclei, vicinity): the pairs returned and the caller's nuclei
\* list as the call leaves it.
assign_measure(foci_list, nuclei_list, vic) ==
    LET _nuclei == copy(nuclei_list)
        done == measure_while(foci_list, _nuclei.items, vic, <<>>)
    IN [raised |-> "none",
        pairs |-> done.pairs,
        nuclei |-> IF _nuclei.shared THEN done._nuclei ELSE nuclei_list]

---------------------------------------------------------------------------
(* The calls of one field *)

InitMetricsIdle ==
    /\ annotation = <<>>
    /\ predictions = <<>>
    /\ tolerance = 0
    /\ perf = <<>>
    /\ matching_calls = 0
    /\ matchings = <<>>
    /\ detections = <<>>

InitScoreIdle ==
    /\ score_log = <<>>
    /\ save_log = <<>>

InitFrequencyIdle ==
    /\ df = <<>>
    /\ freq = <<>>

NoGeometry == [contours |-> <<>>, boxes |-> <<>>, centres |-> <<>>, cnt |-> <<>>]

InitGeometryIdle ==
    /\ geo_in = <<>>
    /\ geometry = NoGeometry

InitBatchIdle ==
    /\ batch = <<>>
    /\ cli = <<>>

InitModelIdle ==
    /\ dirs = {}
    /\ cache = <<>>
    /\ constructed = <<>>
    /\ calls = <<>>
    /\ threads = <<>>

InitDetectIdle ==
    /\ service = <<>>
    /\ detected = <<>>

Init ==
    /\ foci \in FociLists
    /\ nuclei \in NucleiLists
    /\ vicinity \in Vicinities
    /\ log_nearest = <<>>
    /\ log_force = <<>>
    /\ log_measure = <<>>
    /\ InitMetricsIdle
    /\ InitScoreIdle
    /\ InitFrequencyIdle
    /\ InitGeometryIdle
    /\ InitBatchIdle
    /\ InitModelIdle
    /\ InitDetectIdle

CallAssignNearest ==
    /\ Len(log_nearest) < MaxCalls
    /\ log_nearest' = Append(log_nearest, assign_commands_score(foci, nuclei))
    /\ UNCHANGED <<foci, nuclei, vicinity, log_force, log_measure>>
    /\ UNCHANGED <<metrics_vars, score_vars, frequency_vars, geometry_vars,
                 batch_vars, model_vars, detect_vars>>

CallAssignForce ==
    /\ Len(log_force) < MaxCalls
    /\ log_force' = Append(log_force, assign_centrack_score(foci, nuclei))
    /\ UNCHANGED <<foci, nuclei, vicinity, log_nearest, log_measure>>
    /\ UNCHANGED <<metrics_vars, score_vars, frequency_vars, geometry_vars,
                 batch_vars, model_vars, detect_vars>>

CallAssignMeasure ==
    /\ Len(log_measure) < MaxCalls
    /\ LET r == assign_measure(foci, nuclei, vicinity)
       IN /\ log_measure' = Append(log_measure, [raised |-> r.raised, pairs |-> r.pairs])
          /\ nuclei' = r.nuclei
    /\ UNCHANGED <<foci, vicinity, log_nearest, log_force>>
    /\ UNCHANGED <<metrics_vars, score_vars, frequency_vars, geometry_vars,
                 batch_vars, model_vars, detect_vars>>

Next == CallAssignNearest \/ CallAssignForce \/ CallAssignMeasure

Spec == Init /\ [][Next]_vars

---------------------------------------------------------------------------
(* Properties of the three assign functions *)

Indices(s) == 1..Len(s)

\* The largest signed distance of focus f to a nucleus of the list.
MaxDistance(f, nuclei_list) ==
    MaxOf({ signed_distance(f, nuclei_list[j]) : j \in Indices(nuclei_list) })

\* The places of the (focus, nucleus) list where focus f stands.
PlacesOf(f, assigned) == { p \in Indices(assigned) : assigned[p][1] = f }

\* C1: in every result of the nearest-with-threshold assign on non-empty
\* inputs, each focus stands in at most one pair, the nucleus of that pair is
\* a nucleus of the input at the maximal signed distance to the focus, and
\* the focus is paired if and only if that distance is strictly above -50.
C1_NearestAboveThreshold ==
    \A k \in Indices(log_nearest) :
        (foci # <<>> /\ nuclei # <<>>) =>
            /\ log_nearest[k].raised = "none"
            /\ \A p \in Indices(log_nearest[k].assigned) :
                   \E i \in Indices(foci) : log_nearest[k].assigned[p][1] = foci[i]
            /\ \A i \in Indices(foci) :
                   LET places == PlacesOf(foci[i], log_nearest[k].assigned)
                       best == MaxDistance(foci[i], nuclei)
                   IN /\ Cardinality(places) <= 1
                      /\ (places # {}) <=> (best > Signed2(-50))
                      /\ \A p \in places :
                            /\ \E j \in Indices(nuclei) :
                                   log_nearest[k].assigned[p][2] = nuclei[j]
                            /\ signed_distance(foci[i], log_nearest[k].assigned[p][2]) = best

\* A call paired a focus lying inside a nucleus and left another focus, at
\* exactly 50 from the nearest nucleus, unassigned.
C1_Witness ==
    /\ Len(log_nearest) >= 1
    /\ nuclei # <<>>
    /\ \E i, j \in Indices(foci) :
           /\ MaxDistance(foci[i], nuclei) > 0
           /\ PlacesOf(foci[i], log_nearest[1].assigned) # {}
           /\ MaxDistance(foci[j], nuclei) = Signed2(-50)
           /\ PlacesOf(foci[j], log_nearest[1].assigned) = {}

\* C2: in every result of the all-within-threshold assign, every nucleus of
\* the input has a pair, and the list paired with a nucleus holds a focus of
\* the input if and only if the signed distance of that focus to that nucleus
\* is strictly above the vicinity, whatever the other nuclei; it holds
\* nothing else and keeps the foci in their input order.
C2_AllWithinVicinity ==
    \A k \in Indices(log_measure) :
        /\ \A j \in Indices(nuclei) :
               \E p \in Indices(log_measure[k].pairs) : log_measure[k].pairs[p][1] = nuclei[j]
        /\ \A p \in Indices(log_measure[k].pairs) :
               LET n == log_measure[k].pairs[p][1]
                   assigned == log_measure[k].pairs[p][2]
               IN /\ \A i \in Indices(foci) :
                         (\E q \in Indices(assigned) : assigned[q] = foci[i])
                             <=> (signed_distance(foci[i], n) > Signed2(vicinity))
                  /\ \A q \in Indices(assigned) :
                         \E i \in Indices(foci) : assigned[q] = foci[i]
                  /\ \A q1, q2 \in Indices(assigned) :
                         q1 < q2 => assigned[q1].idx < assigned[q2].idx

\* A call put one focus in the lists of two nuclei, and left a focus at
\* exactly the vicinity from a nucleus out of that nucleus's list.
C2_Witness ==
    /\ Len(log_measure) >= 1
    /\ \E i \in Indices(foci) : \E p1, p2 \in Indices(log_measure[1].pairs) :
           /\ p1 # p2
           /\ \E q \in Indices(log_measure[1].pairs[p1][2]) :
                  log_measure[1].pairs[p1][2][q] = foci[i]
           /\ \E q \in Indices(log_measure[1].pairs[p2][2]) :
                  log_measure[1].pairs[p2][2][q] = foci[i]
    /\ \E i \in Indices(foci) : \E j \in Indices(nuclei) :
           signed_distance(foci[i], nuclei[j]) = Signed2(vicinity)

\* C3: the all-within-threshold assign never raises and returns exactly one
\* pair per nucleus of the input, no nucleus twice; with no foci every
\* paired list is empty, with no nuclei the result is empty.
C3_OnePairPerNucleus ==
    \A k \in Indices(log_measure) :
        /\ log_measure[k].raised = "none"
        /\ Len(log_measure[k].pairs) = Len(nuclei)
        /\ \A j \in Indices(nuclei) :
               Cardinality({ p \in Indices(log_measure[k].pairs) :
                               log_measure[k].pairs[p][1].idx = nuclei[j].idx }) = 1
        /\ foci = <<>> =>
               \A p \in Indices(log_measure[k].pairs) : log_measure[k].pairs[p][2] = <<>>
        /\ nuclei = <<>> => log_measure[k].pairs = <<>>

\* A call with no foci and two nuclei has returned.
C3_Witness ==
    /\ Len(log_measure) >= 1
    /\ foci = <<>>
    /\ Len(nuclei) >= 2
    /\ Len(log_measure[1].pairs) >= 2

\* C4: on an empty foci list or an empty nuclei list both nearest assign
\* functions raise ValueError, having computed no distance, and return no
\* pair.
C4_EmptyInputRaises ==
    (foci = <<>> \/ nuclei = <<>>) =>
        /\ \A k \in Indices(log_nearest) :
               /\ log_nearest[k].raised = "ValueError"
               /\ log_nearest[k].assigned = <<>>
               /\ log_nearest[k].ndist = 0
        /\ \A k \in Indices(log_force) :
               /\ log_force[k].raised = "ValueError"
               /\ log_force[k].assigned = <<>>
               /\ log_force[k].ndist = 0

\* Both functions were called with no foci and some nuclei.
C4_Witness ==
    /\ foci = <<>>
    /\ nuclei # <<>>
    /\ Len(log_nearest) >= 1
    /\ Len(log_force) >= 1

\* The nuclei of the list at the maximal signed distance to focus f.
Nearest(f, nuclei_list) ==
    { j \in Indices(nuclei_list) :
        signed_distance(f, nuclei_list[j]) = MaxDistance(f, nuclei_list) }

FirstNearestIn(assigned) ==
    \A p \in Indices(assigned) :
        \E j \in Nearest(assigned[p][1], nuclei) :
            /\ assigned[p][2] = nuclei[j]
            /\ \A j2 \in Nearest(assigned[p][1], nuclei) : j <= j2

\* C5: in every result of a nearest assign, a paired focus is paired with
\* the first nucleus of the input list among those at the maximal signed
\* distance to it.
C5_TieGoesToFirst ==
    /\ \A k \in Indices(log_nearest) : FirstNearestIn(log_nearest[k].assigned)
    /\ \A k \in Indices(log_force) : FirstNearestIn(log_force[k].assigned)

\* A call paired a focus that has two nuclei at the same maximal distance.
C5_Witness ==
    /\ Len(log_nearest) >= 1
    /\ \E p \in Indices(log_nearest[1].assigned) :
           Cardinality(Nearest(log_nearest[1].assigned[p][1], nuclei)) >= 2

\* C6: on non-empty inputs the forcing assign returns one pair per focus of
\* the input, in input order, whatever the distance.
C6_ForceAssignsEveryFocus ==
    \A k \in Indices(log_force) :
        (foci # <<>> /\ nuclei # <<>>) =>
            /\ log_force[k].raised = "none"
            /\ Len(log_force[k].assigned) = Len(foci)
            /\ \A i \in Indices(foci) : log_force[k].assigned[i][1] = foci[i]

\* The forcing assign paired a focus lying more than 50 outside every nucleus.
C6_Witness ==
    /\ Len(log_force) >= 1
    /\ \E i \in Indices(log_force[1].assigned) :
           MaxDistance(log_force[1].assigned[i][1], nuclei) < Signed2(-50)

\* C7: every call of an assign function made on the caller's foci list,
\* nuclei list and vicinity returns what the first call returned.
C7_SecondCallSameResult ==
    /\ \A k \in Indices(log_measure) : log_measure[k] = log_measure[1]
    /\ \A k \in Indices(log_nearest) : log_nearest[k] = log_nearest[1]

\* Both assign functions were called twice and paired something.
C7_Witness ==
    /\ Len(log_measure) >= 2
    /\ Len(log_nearest) >= 2
    /\ \E p \in Indices(log_measure[2].pairs) : log_measure[2].pairs[p][2] # <<>>
    /\ log_nearest[2].assigned # <<>>

\* C8: once measure.assign has run, the centrioles list of every nucleus
\* holds exactly the foci the call paired with that nucleus.
C8_CentriolesHoldAssigned ==
    \A k \in Indices(log_measure) :
        \A p \in Indices(log_measure[k].pairs) :
            /\ log_measure[k].pairs[p][1].centrioles = log_measure[k].pairs[p][2]
            /\ \A j \in Indices(nuclei) :
                   nuclei[j].idx = log_measure[k].pairs[p][1].idx
                       => nuclei[j].centrioles = log_measure[k].pairs[p][2]

---------------------------------------------------------------------------
(* field_metrics of src/cenfind/core/measure.py                            *)
(*                                                                         *)
(* A ratio is carried as <<numerator, denominator>> and a reported metric  *)
(* as the integer number of thousandths np.round(x, 3) leaves: 1000 is 1.0 *)
(* and 667 is 0.667.                                                       *)

\* Points an annotation or a prediction may hold (those of scenarios A, B).
MetricPoints == { <<10, 10>>, <<10, 12>>, <<50, 50>> }

Tolerances == { 0, 5 }

PointLists == SeqsUpTo(MetricPoints, MaxPoints)

Dist2(a, b) == (a[1] - b[1]) * (a[1] - b[1]) + (a[2] - b[2]) * (a[2] - b[2])

\* The matchings the greedy rule can end with: repeatedly take a closest
\* pair (annotated i, predicted j) among the unmatched ones within the cutoff
\* and remove both, until no pair is within the cutoff.  A tie between
\* closest pairs may go either way.
RECURSIVE greedy_matchings(_, _, _, _, _)
greedy_matchings(p1, p2, cutoff, free1, free2) ==
    LET within == { c \in free1 \X free2 : Dist2(p1[c[1]], p2[c[2]]) <= cutoff * cutoff }
    IN IF within = {} THEN { {} }
       ELSE LET least == MinOf({ Dist2(p1[c[1]], p2[c[2]]) : c \in within })
                closest == { c \in within : Dist2(p1[c[1]], p2[c[2]]) = least }
            IN UNION { { m \cup {c} :
                           m \in greedy_matchings(p1, p2, cutoff,
                                                  free1 \ {c[1]}, free2 \ {c[2]}) } :
                       c \in closest }

Ratio(num, den) == IF den = 0 THEN <<0, 1>> ELSE <<num, den>>

\* spotipy.utils.points_matching(p1, p2, cutoff_distance): the results the
\* matching of annotated p1 with predicted p2 can give.
points_matching(p1, p2, cutoff_distance) ==
    { [matched |-> m,
       precision |-> Ratio(Cardinality(m), Len(p2)),
       recall |-> Ratio(Cardinality(m), Len(p1)),
       f1 |-> Ratio(2 * Cardinality(m), Len(p1) + Len(p2))] :
      m \in greedy_matchings(p1, p2, cutoff_distance, Indices(p1), Indices(p2)) }

round3_floor(x) == (1000 * x[1]) \div x[2]

\* np.round(x, 3) of the ratio x, in thousandths (halves go to the even one).
round3(x) ==
    LET scaled == 1000 * x[1]
        q == scaled \div x[2]
        r == scaled % x[2]
    IN IF 2 * r < x[2] THEN q
       ELSE IF 2 * r > x[2] THEN q + 1
       ELSE IF q % 2 = 0 THEN q ELSE q + 1

\* all(iterable): every item is truthy (a length is truthy unless it is 0).
all(lens) == \A i \in Indices(lens) : lens[i] # 0

\* A bool compared as the integer it is.
BoolInt(b) == IF b THEN 1 ELSE 0

metrics_guard_any(predictions_, annotation_) ==
    BoolInt(\E i \in 1..2 : <<Len(predictions_), Len(annotation_)>>[i] # 0) > 0

metrics_guard_above_one(predictions_, annotation_) ==
    BoolInt(all(<<Len(predictions_), Len(annotation_)>>)) > 1

\* if all((len(predictions), len(annotation))) > 0
metrics_guard(predictions_, annotation_) ==
    BoolInt(all(<<Len(predictions_), Len(annotation_)>>)) > 0

\* The perf dictionary (without the names of the dataset, field and channel).
perf_dict(annotation_, predictions_, tolerance_, res) ==
    [n_actual |-> Len(annotation_),
     n_preds |-> Len(predictions_),
     tolerance |-> tolerance_,
     precision |-> round3(res.precision),
     recall |-> round3(res.recall),
     f1 |-> round3(res.f1)]

\* field_metrics(field, channel, annotation, predictions, tolerance): the
\* outcomes the call can have, each with the number of calls of
\* points_matching it made.
field_metrics(annotation_, predictions_, tolerance_) ==
    IF metrics_guard(predictions_, annotation_)
    THEN { [raised |-> "none", calls |-> 1, res |-> <<res>>,
            perf |-> perf_dict(annotation_, predictions_, tolerance_, res)] :
           res \in points_matching(annotation_, predictions_, tolerance_) }
    ELSE { [raised |-> "none", calls |-> 0, res |-> <<>>,
            perf |-> perf_dict(annotation_, predictions_, tolerance_,
                               [precision |-> <<0, 1>>, recall |-> <<0, 1>>,
                                f1 |-> <<0, 1>>])] }

InitAssignIdle ==
    /\ foci = <<>>
    /\ nuclei = <<>>
    /\ vicinity = 0
    /\ log_nearest = <<>>
    /\ log_force = <<>>
    /\ log_measure = <<>>

InitMetrics ==
    /\ annotation \in PointLists
    /\ predictions \in PointLists
    /\ tolerance \in Tolerances
    /\ perf = <<>>
    /\ matching_calls = 0
    /\ matchings = <<>>
    /\ detections = <<>>
    /\ InitAssignIdle
    /\ InitScoreIdle
    /\ InitFrequencyIdle
    /\ InitGeometryIdle
    /\ InitBatchIdle
    /\ InitModelIdle
    /\ InitDetectIdle

CallFieldMetrics ==
    /\ Len(perf) < MaxCalls
    /\ \E out \in field_metrics(annotation, predictions, tolerance) :
           /\ perf' = Append(perf, out.perf)
           /\ matching_calls' = matching_calls + out.calls
           /\ matchings' = matchings \o out.res
    /\ UNCHANGED <<annotation, predictions, tolerance, detections>>
    /\ UNCHANGED <<assign_vars, score_vars, frequency_vars, geometry_vars,
                 batch_vars, model_vars, detect_vars>>

\* run_detection(method, data, annotation, tolerance, ...) of
\* experiments/detectors_other.py, for a method that detected foci_: the f1
\* it returns, with the matching it was computed from.
run_detection(annotation_, foci_, tolerance_) ==
    { [res |-> res, f1 |-> round3(res.f1)] :
      res \in points_matching(annotation_, foci_, tolerance_) }

\* The detection of one method on the field is scored once.
CallRunDetection ==
    /\ detections = <<>>
    /\ \E out \in run_detection(annotation, predictions, tolerance) :
           detections' = Append(detections, out)
    /\ UNCHANGED <<annotation, predictions, tolerance, perf, matching_calls, matchings>>
    /\ UNCHANGED <<assign_vars, score_vars, frequency_vars, geometry_vars,
                 batch_vars, model_vars, detect_vars>>

NextMetrics == CallFieldMetrics \/ CallRunDetection

SpecMetrics == InitMetrics /\ [][NextMetrics]_vars

\* C9: when the annotation or the predictions are empty, every call of
\* field_metrics returns precision, recall and f1 all 0 and reports the two
\* lengths, and points_matching has not been called.
C9_EmptySetGivesZero ==
    (annotation = <<>> \/ predictions = <<>>) =>
        /\ matching_calls = 0
        /\ \A k \in Indices(perf) :
               /\ perf[k].precision = 0
               /\ perf[k].recall = 0
               /\ perf[k].f1 = 0
               /\ perf[k].n_actual = Len(annotation)
               /\ perf[k].n_preds = Len(predictions)

\* field_metrics has returned for an empty annotation and two predictions.
C9_Witness ==
    /\ Len(perf) >= 1
    /\ annotation = <<>>
    /\ Len(predictions) >= 2

\* C10: for a non-empty list of points given both as the annotation and as
\* the predictions, field_metrics reports precision, recall and f1 all 1,
\* whatever the cutoff >= 0.
C10_SameSetGivesOne ==
    (annotation # <<>> /\ predictions = annotation) =>
        \A k \in Indices(perf) :
            /\ perf[k].precision = 1000
            /\ perf[k].recall = 1000
            /\ perf[k].f1 = 1000

\* field_metrics has returned for two points, twice the same list, at cutoff 0.
C10_Witness ==
    /\ Len(perf) >= 1
    /\ Len(annotation) >= 2
    /\ predictions = annotation
    /\ tolerance = 0
    /\ matching_calls >= 1

\* A matching pairs no annotated point and no predicted point twice, and
\* only points within the cutoff of each other.
OneToOneWithin(m, cutoff) ==
    /\ \A a, b \in m : (a[1] = b[1] \/ a[2] = b[2]) => a = b
    /\ \A a \in m :
           /\ a[1] \in Indices(annotation)
           /\ a[2] \in Indices(predictions)
           /\ Dist2(annotation[a[1]], predictions[a[2]]) <= cutoff * cutoff

\* The number of thousandths t is num/den rounded to the nearest thousandth.
NearestThousandth(t, num, den) == 2 * Abs(t * den - 1000 * num) <= den

\* C11: for a non-empty annotation and non-empty predictions, the matching
\* behind every result is one-to-one and within the cutoff, and the reported
\* precision, recall and f1 are matched/n_predicted, matched/n_annotated and
\* 2*matched/(n_annotated + n_predicted) (which is 2pr/(p+r), 0 when nothing
\* is matched) rounded to 3 decimals, each between 0 and 1; annotated
\* [(10,10),(50,50)] with predicted [(10,12)] at cutoff 5 gives 1.0, 0.5 and
\* 0.667.  run_detection reports the same f1.
C11_MetricsOfTheMatching ==
    (annotation # <<>> /\ predictions # <<>>) =>
        /\ Len(matchings) = Len(perf)
        /\ \A k \in Indices(perf) :
               LET matched == Cardinality(matchings[k].matched)
               IN /\ OneToOneWithin(matchings[k].matched, tolerance)
                  /\ NearestThousandth(perf[k].precision, matched, Len(predictions))
                  /\ NearestThousandth(perf[k].recall, matched, Len(annotation))
                  /\ NearestThousandth(perf[k].f1, 2 * matched,
                                       Len(annotation) + Len(predictions))
                  /\ matched = 0 => perf[k].f1 = 0
                  /\ \A v \in {perf[k].precision, perf[k].recall, perf[k].f1} :
                         0 <= v /\ v <= 1000
                  /\ (/\ annotation = << <<10, 10>>, <<50, 50>> >>
                      /\ predictions = << <<10, 12>> >>
                      /\ tolerance = 5)
                         => /\ perf[k].precision = 1000
                            /\ perf[k].recall = 500
                            /\ perf[k].f1 = 667
        /\ \A k \in Indices(detections) :
               /\ OneToOneWithin(detections[k].res.matched, tolerance)
               /\ NearestThousandth(detections[k].f1,
                                    2 * Cardinality(detections[k].res.matched),
                                    Len(annotation) + Len(predictions))

\* field_metrics and run_detection have returned for scenario B.
C11_Witness ==
    /\ annotation = << <<10, 10>>, <<50, 50>> >>
    /\ predictions = << <<10, 12>> >>
    /\ tolerance = 5
    /\ Len(perf) >= 1
    /\ Len(detections) >= 1
    /\ Cardinality(matchings[1].matched) = 1

---------------------------------------------------------------------------
(* Moments and centre of a contour (src/cenfind/core/outline.py)           *)
(*                                                                         *)
(* A contour point is (x, y) as OpenCV has it.  cv2.moments of a polygon   *)
(* follows Green's formula; the moments are carried multiplied by 6, which *)
(* keeps them integers: m00 = |a00| / 2, m10 = a10 / 6, m01 = a01 / 6.     *)

RECURSIVE SeqSum(_)
SeqSum(s) == IF s = <<>> THEN 0 ELSE s[1] + SeqSum(Tail(s))

\* cv2.moments(contour): all moments are 0 when the area is 0.
moments(contour) ==
    LET n == Len(contour)
        prev(i) == contour[IF i = 1 THEN n ELSE i - 1]
        cross(i) == prev(i)[1] * contour[i][2] - contour[i][1] * prev(i)[2]
        a00 == SeqSum([i \in 1..n |-> cross(i)])
        a10 == SeqSum([i \in 1..n |-> cross(i) * (prev(i)[1] + contour[i][1])])
        a01 == SeqSum([i \in 1..n |-> cross(i) * (prev(i)[2] + contour[i][2])])
        sign == IF a00 < 0 THEN -1 ELSE 1
    IN IF a00 = 0 THEN [m00 |-> 0, m10 |-> 0, m01 |-> 0]
       ELSE [m00 |-> 3 * sign * a00, m10 |-> sign * a10, m01 |-> sign * a01]

\* int(num / (den + 1e-5)) for num >= 0 and den >= 0, both carried times 6:
\* the small term lowers an exact quotient just below the integer, so that
\* int() gives the integer before it; 0 / 1e-5 is 0.
int_div_eps(num, den) ==
    IF num = 0 THEN 0
    ELSE IF den = 0 THEN num * 100000
    ELSE IF num % den = 0 THEN (num \div den) - 1
    ELSE num \div den

\* Contour.centre of outline.py: Centre((centre_y, centre_x), idx, ...)
Contour_centre(n) ==
    LET m == moments(n.contour)
        centre_x == int_div_eps(m.m10, m.m00)
        centre_y == int_div_eps(m.m01, m.m00)
    IN Centre(<<centre_y, centre_x>>, n.idx)

---------------------------------------------------------------------------
(* field_score of measure.py and save_foci of cli/score.py *)

FieldScoreVicinity == -50

\* The (rows, columns) of the projection of the field.
ProjectionShape == <<200, 200>>

\* cenfind.core.helpers.full_in_field(position, projection, fraction): the
\* position is more than the fraction (in hundredths) of the frame away from
\* every edge.
full_in_field(position, shape, hundredths) ==
    \A axis \in 1..2 :
        /\ 100 * position[axis] > hundredths * shape[axis]
        /\ 100 * position[axis] < (100 - hundredths) * shape[axis]

\* The dictionary appended to scores for one pair.
score_record(pair) ==
    [fov |-> "field", channel |-> 1,
     nucleus |-> Contour_centre(pair[1]).position,
     score |-> Len(pair[2]),
     is_full |-> full_in_field(Contour_centre(pair[1]).position, ProjectionShape, 5)]

RECURSIVE field_score_scores_nonempty(_)
field_score_scores_nonempty(assigned) ==
    IF assigned = <<>> THEN <<>>
    ELSE (IF assigned[1][2] = <<>> THEN <<>> ELSE <<score_record(assigned[1])>>)
         \o field_score_scores_nonempty(Tail(assigned))

\* for pair in assigned: scores.append({...})
field_score_scores(assigned) ==
    [p \in 1..Len(assigned) |-> score_record(assigned[p])]

\* field_score(...) once the detectors have returned foci_list and
\* nuclei_list: the (foci, nuclei, assigned, scores) it returns.
field_score(foci_list, nuclei_list) ==
    LET assigned == assign_measure(foci_list, nuclei_list, FieldScoreVicinity).pairs
    IN [foci |-> foci_list, nuclei |-> nuclei_list,
        assigned |-> assigned, scores |-> field_score_scores(assigned)]

\* Centre.to_numpy(): np.asarray(self.centre), a (row, col) pair.
to_numpy(c) == centre(c)

\* np.array([]) has one dimension and no item; np.stack of n pairs has two
\* dimensions and n rows.
foci_array(foci_list) ==
    IF Len(foci_list) = 0 THEN [ndim |-> 1, rows |-> <<>>]
    ELSE [ndim |-> 2, rows |-> [i \in 1..Len(foci_list) |-> to_numpy(foci_list[i])]]

save_columns_unswapped == <<0, 1>>

\* The columns taken in array[:, [1, 0]].
save_columns == <<1, 0>>

\* array[:, cols]: two indices on an array of one dimension raise IndexError.
take_columns(array, cols) ==
    IF array.ndim < 2 THEN [raised |-> "IndexError", rows |-> <<>>]
    ELSE [raised |-> "none",
          rows |-> [i \in 1..Len(array.rows) |->
                       [j \in 1..Len(cols) |-> array.rows[i][cols[j] + 1]]]]

\* save_foci(foci_list, dst): the rows np.savetxt writes with fmt='%u', or
\* the exception raised before anything is written.
save_foci(foci_list) == take_columns(foci_array(foci_list), save_columns)

InitScore ==
    /\ foci \in FociLists
    /\ nuclei \in NucleiLists
    /\ vicinity = FieldScoreVicinity
    /\ log_nearest = <<>>
    /\ log_force = <<>>
    /\ log_measure = <<>>
    /\ score_log = <<>>
    /\ save_log = <<>>
    /\ InitMetricsIdle
    /\ InitFrequencyIdle
    /\ InitGeometryIdle
    /\ InitBatchIdle
    /\ InitModelIdle
    /\ InitDetectIdle

CallFieldScore ==
    /\ Len(score_log) < MaxCalls
    /\ score_log' = Append(score_log, field_score(foci, nuclei))
    /\ UNCHANGED <<save_log, assign_vars, metrics_vars, frequency_vars, geometry_vars,
                 batch_vars, model_vars, detect_vars>>

CallSaveFoci ==
    /\ Len(save_log) < MaxCalls
    /\ save_log' = Append(save_log, save_foci(foci))
    /\ UNCHANGED <<score_log, assign_vars, metrics_vars, frequency_vars, geometry_vars,
                 batch_vars, model_vars, detect_vars>>

NextScore == CallFieldScore \/ CallSaveFoci

SpecScore == InitScore /\ [][NextScore]_vars

\* C12: field_score returns one score record per pair of assign, in the
\* order of the pairs, hence one per nucleus, and the score of a record is
\* the length of the foci list paired with that nucleus.
C12_OneScorePerPair ==
    \A k \in Indices(score_log) :
        /\ Len(score_log[k].scores) = Len(score_log[k].assigned)
        /\ Len(score_log[k].scores) = Len(nuclei)
        /\ \A p \in Indices(score_log[k].assigned) :
               /\ score_log[k].scores[p].score = Len(score_log[k].assigned[p][2])
               /\ score_log[k].scores[p].nucleus
                      = Contour_centre(score_log[k].assigned[p][1]).position

\* field_score has scored a nucleus with no focus and a nucleus with two.
C12_Witness ==
    /\ Len(score_log) >= 1
    /\ \E p, q \in Indices(score_log[1].scores) :
           /\ score_log[1].scores[p].score = 0
           /\ score_log[1].scores[q].score = 2

\* C15: save_foci called with an empty list completes without raising and
\* writes no row.
C15_EmptySaveCompletes ==
    foci = <<>> =>
        \A k \in Indices(save_log) :
            /\ save_log[k].raised = "none"
            /\ save_log[k].rows = <<>>

\* C16: save_foci called with a non-empty list writes one row per focus, in
\* list order, and the row of a focus at (row, col) holds col then row.
C16_OneRowPerFocus ==
    foci # <<>> =>
        \A k \in Indices(save_log) :
            /\ save_log[k].raised = "none"
            /\ Len(save_log[k].rows) = Len(foci)
            /\ \A i \in Indices(foci) :
                   save_log[k].rows[i] = <<foci[i].position[2], foci[i].position[1]>>

\* save_foci has written two foci, the first with a row unlike its column.
C16_Witness ==
    /\ Len(save_log) >= 1
    /\ Len(foci) >= 2
    /\ foci[1].position[1] # foci[1].position[2]
    /\ Len(save_log[1].rows) = Len(foci)

---------------------------------------------------------------------------
(* field_score_frequency of measure.py *)

\* The fields and the scores the records of a dataset may hold.
Fovs == { "field_a", "field_b" }

ScoreValues == { 0, 1, 4, 5, 6 }

ScoreRecords == [fov : Fovs, channel : {1}, score : ScoreValues]

ScoreTables == SeqsUpTo(ScoreRecords, MaxRecords)

\* cuts = [0, 1, 2, 3, 4, 5, np.inf]: the finite edges; the edge after the
\* last of them is np.inf.
cuts == <<0, 1, 2, 3, 4, 5>>

\* labels = '0 1 2 3 4 +'.split(' ')
labels == <<"0", "1", "2", "3", "4", "+">>

in_bin_right_closed(score, i) ==
    /\ (cuts[i] < score \/ (i = 1 /\ cuts[i] = score))
    /\ (i = Len(cuts) \/ score <= cuts[i + 1])

\* Bin i of pd.cut(..., right=False): cuts[i] <= score < cuts[i + 1].
in_bin(score, i) ==
    /\ cuts[i] <= score
    /\ (i = Len(cuts) \/ score < cuts[i + 1])

\* pd.cut(score, cuts, right=False, labels=labels, include_lowest=True): the
\* label of the bin of the score, none (NaN) for a score in no bin.
cut(score) ==
    IF \E i \in Indices(labels) : in_bin(score, i)
    THEN <<labels[CHOOSE i \in Indices(labels) : in_bin(score, i)]>>
    ELSE <<>>

in_group_any(row, g) == TRUE

\* groupby(['fov', 'channel']): the rows of group g.
in_group(row, g) == <<row.fov, row.channel>> = g

\* value_counts() of the categorical column in each group, pivoted: for
\* each (fov, channel) of the records, the number of its rows under each of
\* the categories, 0 for a category without row.
value_counts_pivot(df_) ==
    [g \in { <<df_[i].fov, df_[i].channel>> : i \in Indices(df_) } |->
        [l \in { labels[i] : i \in Indices(labels) } |->
            Cardinality({ i \in Indices(df_) :
                            in_group(df_[i], g) /\ cut(df_[i].score) = <<l>> })]]

\* field_score_frequency(df); a DataFrame built of no record has no 'fov'
\* column to set the index on.
field_score_frequency(df_) ==
    IF df_ = <<>> THEN [raised |-> "KeyError", result |-> <<>>]
    ELSE [raised |-> "none", result |-> <<value_counts_pivot(df_)>>]

InitFrequency ==
    /\ df \in ScoreTables
    /\ freq = <<>>
    /\ InitAssignIdle
    /\ InitMetricsIdle
    /\ InitScoreIdle
    /\ InitGeometryIdle
    /\ InitBatchIdle
    /\ InitModelIdle
    /\ InitDetectIdle

CallFieldScoreFrequency ==
    /\ freq = <<>>
    /\ freq' = Append(freq, field_score_frequency(df))
    /\ UNCHANGED <<df, assign_vars, metrics_vars, score_vars, geometry_vars,
                 batch_vars, model_vars, detect_vars>>

NextFrequency == CallFieldScoreFrequency

SpecFrequency == InitFrequency /\ [][NextFrequency]_vars

\* The bucket the claim gives a score.
BucketOf(score) ==
    IF score >= 5 THEN "+"
    ELSE IF score = 0 THEN "0"
    ELSE IF score = 1 THEN "1"
    ELSE IF score = 2 THEN "2"
    ELSE IF score = 3 THEN "3"
    ELSE "4"

Buckets == {"0", "1", "2", "3", "4", "+"}

RowsOf(g) == { i \in Indices(df) : <<df[i].fov, df[i].channel>> = g }

Groups == { <<df[i].fov, df[i].channel>> : i \in Indices(df) }

\* C13: the table of field_score_frequency has, for every (field, channel)
\* of the records, the six buckets 0, 1, 2, 3, 4, +, and under each the
\* number of records of the group whose score is that bucket's (a score of
\* 0..4 its own bucket, a score >= 5 the bucket +), 0 where there is none;
\* scores [0, 1, 1, 6] give 1, 2, 0, 0, 0, 1.
C13_ScoresFallInTheirBucket ==
    \A k \in Indices(freq) :
        df # <<>> =>
            /\ freq[k].raised = "none"
            /\ \A g \in Groups :
                   /\ g \in DOMAIN freq[k].result[1]
                   /\ DOMAIN freq[k].result[1][g] = Buckets
                   /\ \A b \in Buckets :
                          freq[k].result[1][g][b]
                              = Cardinality({ i \in RowsOf(g) : BucketOf(df[i].score) = b })
            /\ [i \in Indices(df) |-> df[i].score] = <<0, 1, 1, 6>> /\ Cardinality(Groups) = 1
                   => \A g \in Groups :
                          freq[k].result[1][g]
                              = [b \in Buckets |->
                                    IF b = "0" THEN 1 ELSE IF b = "1" THEN 2
                                    ELSE IF b = "+" THEN 1 ELSE 0]

\* The table was computed for the scores 0, 1, 1, 6 of one field.
C13_Witness ==
    /\ Len(freq) = 1
    /\ [i \in Indices(df) |-> df[i].score] = <<0, 1, 1, 6>>
    /\ Cardinality(Groups) = 1
    /\ freq[1].raised = "none"

SumOver(f, S) == SeqSum([i \in 1..6 |-> IF labels[i] \in S THEN f[labels[i]] ELSE 0])

\* C14: in the table of field_score_frequency the bucket counts of every
\* (field, channel) add up to the number of records of that group, and the
\* table has no other group.
C14_BucketCountsAddUp ==
    \A k \in Indices(freq) :
        df # <<>> =>
            /\ DOMAIN freq[k].result[1] = Groups
            /\ \A g \in Groups :
                   SumOver(freq[k].result[1][g], Buckets) = Cardinality(RowsOf(g))

\* The table was computed for records of two fields, one with more records.
C14_Witness ==
    /\ Len(freq) = 1
    /\ freq[1].raised = "none"
    /\ Cardinality(Groups) = 2
    /\ \E g, h \in Groups : Cardinality(RowsOf(g)) > Cardinality(RowsOf(h))

---------------------------------------------------------------------------
(* Centre, BBox and Contour of centrack/annotation.py, and the contour     *)
(* centres of structures.py and utils.py.  A contour is a sequence of      *)
(* <<x, y>> vertices, as OpenCV takes it; a position is <<row, col>>.      *)

\* Contours without area: a segment and a single point.
DegenerateContours == { << <<5, 5>>, <<9, 5>> >>, << <<7, 3>> >> }

GeometryContours == ContourShapes \cup DegenerateContours

Corners == { <<0, 0>>, <<10, 10>>, <<10, 40>> }

CentrePositions == { <<0, 0>>, <<32, 32>>, <<33, 47>>, <<100, 7>> }

Idxs == { 0, 1 }

Labels == { "centriole" }

\* Confidences, in thousandths.
Confidences == { 500, 1000 }

\* The dataclass Centre(position, idx, label, confidence).
Annotation_Centre(position, idx, label, confidence) ==
    [position |-> position, idx |-> idx, label |-> label, confidence |-> confidence]

\* The dataclass BBox(top_left, bottom_right, idx, label, confidence): the
\* generated constructor stores its arguments as they are.
BBox(top_left, bottom_right, idx, label, confidence) ==
    [top_left |-> top_left, bottom_right |-> bottom_right,
     idx |-> idx, label |-> label, confidence |-> confidence]

\* The dataclass Contour(contour, label, idx, confidence).
Annotation_Contour(contour, label, idx, confidence) ==
    [contour |-> contour, label |-> label, idx |-> idx, confidence |-> confidence]

\* BBox.height
BBox_height(b) == b.bottom_right[1] - b.top_left[1]

\* BBox.width
BBox_width(b) == b.bottom_right[2] - b.top_left[2]

BBox_centre_half_extent(b) ==
    Annotation_Centre(<<(b.bottom_right[1] - b.top_left[1]) \div 2,
                        (b.bottom_right[2] - b.top_left[2]) \div 2>>,
                      b.idx, b.label, b.confidence)

\* BBox.centre: // is the floor division.
BBox_centre(b) ==
    Annotation_Centre(<<(b.bottom_right[1] + b.top_left[1]) \div 2,
                        (b.bottom_right[2] + b.top_left[2]) \div 2>>,
                      b.idx, b.label, b.confidence)

\* The half side of the box of a Centre.
HalfSide == 32

\* Centre.bbox
Centre_bbox(c) ==
    BBox(<<c.position[1] - HalfSide, c.position[2] - HalfSide>>,
         <<c.position[1] + HalfSide, c.position[2] + HalfSide>>,
         c.idx, c.label, c.confidence)

\* cv2.boundingRect(contour): (x, y, w, h) of the upright rectangle of the
\* integer vertices, w and h counting the pixels of both ends.
boundingRect(contour) ==
    LET xs == { contour[i][1] : i \in Indices(contour) }
        ys == { contour[i][2] : i \in Indices(contour) }
    IN <<MinOf(xs), MinOf(ys), MaxOf(xs) - MinOf(xs) + 1, MaxOf(ys) - MinOf(ys) + 1>>

\* Contour.bbox: r, c, h, w = cv2.boundingRect(self.contour)
Annotation_Contour_bbox(n) ==
    LET rect == boundingRect(n.contour)
        r == rect[1]
        c == rect[2]
        h == rect[3]
        w == rect[4]
    IN BBox(<<r, c>>, <<r + h, c + w>>, n.idx, n.label, n.confidence)

\* Contour.centre of annotation.py
Annotation_Contour_centre(n) ==
    LET m == moments(n.contour)
        r_centre == int_div_eps(m.m01, m.m00)
        c_centre == int_div_eps(m.m10, m.m00)
    IN Annotation_Centre(<<r_centre, c_centre>>, n.idx, n.label, n.confidence)

\* Nucleus.centre of structures.py: (centre_y, centre_x)
Nucleus_centre(contour) ==
    LET m == moments(contour)
        centre_x == int_div_eps(m.m10, m.m00)
        centre_y == int_div_eps(m.m01, m.m00)
    IN <<centre_y, centre_x>>

\* cnt_centre of utils.py: the moments are divided by m00 itself, and the
\* division of a float by 0.0 raises.
cnt_centre(contour) ==
    LET m == moments(contour)
    IN IF m.m00 = 0 THEN [raised |-> "ZeroDivisionError", value |-> <<>>]
       ELSE [raised |-> "none", value |-> <<m.m10 \div m.m00, m.m01 \div m.m00>>]

InitGeometry ==
    /\ geo_in \in [contour : GeometryContours,
                   top_left : Corners, bottom_right : Corners,
                   position : CentrePositions,
                   idx : Idxs, label : Labels, confidence : Confidences]
    /\ geometry = NoGeometry
    /\ InitAssignIdle
    /\ InitMetricsIdle
    /\ InitScoreIdle
    /\ InitFrequencyIdle
    /\ InitBatchIdle
    /\ InitModelIdle
    /\ InitDetectIdle

\* A BBox is built of two corners.
CallBBox ==
    /\ geometry.boxes = <<>>
    /\ geometry' = [geometry EXCEPT !.boxes =
           Append(@, BBox(geo_in.top_left, geo_in.bottom_right,
                          geo_in.idx, geo_in.label, geo_in.confidence))]
    /\ UNCHANGED <<geo_in, assign_vars, metrics_vars, score_vars, frequency_vars,
                 batch_vars, model_vars, detect_vars>>

\* The bbox of a Centre is taken, and the centre of that bbox.
CallCentreBBox ==
    /\ geometry.centres = <<>>
    /\ LET c == Annotation_Centre(geo_in.position, geo_in.idx, geo_in.label, geo_in.confidence)
       IN geometry' = [geometry EXCEPT !.centres =
              Append(@, [of |-> c, bbox |-> Centre_bbox(c),
                         centre |-> BBox_centre(Centre_bbox(c))])]
    /\ UNCHANGED <<geo_in, assign_vars, metrics_vars, score_vars, frequency_vars,
                 batch_vars, model_vars, detect_vars>>

\* The bbox and the centre of a Contour of annotation.py are taken.
CallContourBBoxCentre ==
    /\ geometry.contours = <<>>
    /\ LET n == Annotation_Contour(geo_in.contour, geo_in.label, geo_in.idx, geo_in.confidence)
       IN geometry' = [geometry EXCEPT !.contours =
              Append(@, [of |-> n, bbox |-> Annotation_Contour_bbox(n),
                         centre |-> Annotation_Contour_centre(n)])]
    /\ UNCHANGED <<geo_in, assign_vars, metrics_vars, score_vars, frequency_vars,
                 batch_vars, model_vars, detect_vars>>

\* Every routine that computes the centre of a contour is called on it.
CallContourCentres ==
    /\ geometry.cnt = <<>>
    /\ LET n == Annotation_Contour(geo_in.contour, geo_in.label, geo_in.idx, geo_in.confidence)
       IN geometry' = [geometry EXCEPT !.cnt =
              << [routine |-> "outline.Contour.centre", raised |-> "none",
                  value |-> Contour_centre(Contour(geo_in.contour, geo_in.idx)).position],
                 [routine |-> "structures.Nucleus.centre", raised |-> "none",
                  value |-> Nucleus_centre(geo_in.contour)],
                 [routine |-> "annotation.Contour.centre", raised |-> "none",
                  value |-> Annotation_Contour_centre(n).position],
                 [routine |-> "utils.cnt_centre",
                  raised |-> cnt_centre(geo_in.contour).raised,
                  value |-> cnt_centre(geo_in.contour).value] >>]
    /\ UNCHANGED <<geo_in, assign_vars, metrics_vars, score_vars, frequency_vars,
                 batch_vars, model_vars, detect_vars>>

NextGeometry ==
    \/ CallBBox
    \/ CallCentreBBox
    \/ CallContourBBoxCentre
    \/ CallContourCentres

SpecGeometry == InitGeometry /\ [][NextGeometry]_vars

\* C17: the centre of a Contour of annotation.py lies inside its bbox, on
\* the rows and on the columns.
C17_CentreInsideBBox ==
    \A k \in Indices(geometry.contours) :
        LET e == geometry.contours[k]
        IN /\ e.bbox.top_left[1] <= e.centre.position[1]
           /\ e.centre.position[1] <= e.bbox.bottom_right[1]
           /\ e.bbox.top_left[2] <= e.centre.position[2]
           /\ e.centre.position[2] <= e.bbox.bottom_right[2]

\* The boxes built so far: by the constructor, by Centre.bbox, by Contour.bbox.
BoxesBuilt ==
    { geometry.boxes[k] : k \in Indices(geometry.boxes) }
        \cup { geometry.centres[k].bbox : k \in Indices(geometry.centres) }
        \cup { geometry.contours[k].bbox : k \in Indices(geometry.contours) }

\* C18: every BBox built has a height >= 0 and a width >= 0.
C18_BBoxNotNegative ==
    \A b \in BoxesBuilt : BBox_height(b) >= 0 /\ BBox_width(b) >= 0

\* C19: the bbox of a Centre at (r, c) goes from (r - 32, c - 32) to
\* (r + 32, c + 32), is 64 high and 64 wide, and its centre is the Centre
\* again: same position, idx, label and confidence.
C19_CentreBBoxRoundTrip ==
    \A k \in Indices(geometry.centres) :
        LET e == geometry.centres[k]
            r == geo_in.position[1]
            c == geo_in.position[2]
        IN /\ e.bbox.top_left = <<r - 32, c - 32>>
           /\ e.bbox.bottom_right = <<r + 32, c + 32>>
           /\ BBox_height(e.bbox) = 64
           /\ BBox_width(e.bbox) = 64
           /\ e.centre.position = geo_in.position
           /\ e.centre.idx = geo_in.idx
           /\ e.centre.label = geo_in.label
           /\ e.centre.confidence = geo_in.confidence
           /\ e.bbox.idx = geo_in.idx
           /\ e.bbox.label = geo_in.label
           /\ e.bbox.confidence = geo_in.confidence

\* The bbox and its centre were taken of a Centre whose box starts at
\* negative coordinates and of one at odd coordinates.
C19_Witness ==
    /\ Len(geometry.centres) = 1
    /\ geo_in.position = <<33, 47>>
    /\ geo_in.idx = 1
    /\ geometry.centres[1].centre.position = <<33, 47>>

\* C20: no routine computing the centre of a contour raises on a contour
\* of zero area; each returns a coordinate.
C20_ZeroAreaNeverRaises ==
    moments(geo_in.contour).m00 = 0 =>
        \A k \in Indices(geometry.cnt) :
            /\ geometry.cnt[k].raised = "none"
            /\ Len(geometry.cnt[k].value) = 2

---------------------------------------------------------------------------
(* The batch loops: cli of src/centrack/commands/score.py and cli of       *)
(* centrack/score.py.  One step is one iteration of `for path in fields`.  *)

\* What a field of the dataset comes to: the dimensions of the array loaded
\* from its file, whether the marker asked for is among those of its file
\* name, and the foci and nuclei the detectors find on it.
BatchField(ndim, marker_known, foci_detected, nuclei_detected) ==
    [ndim |-> ndim, marker_known |-> marker_known,
     foci |-> foci_detected, nuclei |-> nuclei_detected]

Square1 == << <<0, 0>>, <<0, 20>>, <<20, 20>>, <<20, 0>> >>

Square2 == << <<40, 0>>, <<40, 20>>, <<60, 20>>, <<60, 0>> >>

BatchFields ==
    { BatchField(3, TRUE, <<>>, <<Contour(Square1, 0)>>),
      BatchField(3, TRUE, <<Centre(<<10, 10>>, 0)>>, <<>>),
      BatchField(3, TRUE, <<Centre(<<10, 10>>, 0)>>, <<Contour(Square1, 0)>>),
      BatchField(3, TRUE, <<Centre(<<100, 100>>, 0)>>, <<Contour(Square1, 0)>>),
      BatchField(3, TRUE, <<Centre(<<10, 10>>, 0), Centre(<<30, 10>>, 1)>>,
                 <<Contour(Square1, 0), Contour(Square2, 1)>>),
      BatchField(2, FALSE, <<Centre(<<10, 10>>, 0)>>, <<Contour(Square1, 0)>>) }

\* A line of the log: its level, its message and the field it is about
\* (0 for a message about no field).
LogLine(level, msg, field) == [level |-> level, msg |-> msg, field |-> field]

\* The loop before its first iteration.
CliStart ==
    [pc |-> "loop", i |-> 1, pairs |-> <<>>, log |-> <<>>,
     images |-> <<>>, results |-> <<>>]

except_nothing(raised) == FALSE

\* except ValueError:
except_ValueError(raised) == raised = "ValueError"

\* The dictionaries the loop appends for the pairs of a field; the two
\* coordinates are stood for by the nucleus and the focus themselves.
pairs_of_field(name, channel, assigned) ==
    [p \in Indices(assigned) |->
        [fov |-> name, channel |-> channel,
         nucleus |-> assigned[p][2].idx, centriole |-> assigned[p][1].position]]

\* One iteration of the loop of commands/score.py on field f, the i-th.
commands_iteration(st, i, f, channel) ==
    LET loading == Append(st.log, LogLine("info", "Loading", i))
    IN IF f.ndim # 3
       THEN [st EXCEPT !.pc = "ValueError", !.log = loading]
       ELSE LET assigned == assign_commands_score(f.foci, f.nuclei)
                counted == Append(loading, LogLine("info", "foci, nuclei", i))
            IN IF assigned.raised # "none"
               THEN IF except_ValueError(assigned.raised)
                    THEN [st EXCEPT !.i = i + 1,
                              !.log = Append(counted,
                                  LogLine("warning", "No foci/nuclei detected", i))]
                    ELSE [st EXCEPT !.pc = assigned.raised, !.log = counted]
               ELSE [st EXCEPT !.i = i + 1, !.log = counted,
                         !.images = Append(@, i),
                         !.pairs = @ \o pairs_of_field(i, channel, assigned.assigned)]

\* After the loop of commands/score.py: results.to_csv and the last message.
commands_finish(st) ==
    [st EXCEPT !.pc = "done",
         !.results = Append(@, st.pairs),
         !.log = Append(@, LogLine("info", "Results have been saved at", 0))]

\* One iteration of the loop of centrack/score.py on field f, the i-th.
centrack_iteration(st, i, f, out) ==
    LET loading == Append(st.log, LogLine("info", "Loading", i))
    IN IF ~f.marker_known
       THEN [st EXCEPT !.pc = "ValueError", !.log = loading]
       ELSE LET assigned == assign_centrack_score(f.foci, f.nuclei)
                counted == Append(loading, LogLine("info", "foci, nuclei", i))
            IN IF assigned.raised # "none"
               THEN IF except_ValueError(assigned.raised)
                    THEN [st EXCEPT !.i = i + 1,
                              !.log = Append(counted,
                                  LogLine("warning", "No foci/nuclei detected", i))]
                    ELSE [st EXCEPT !.pc = assigned.raised, !.log = counted]
               ELSE [st EXCEPT !.i = i + 1, !.log = counted,
                         !.images = IF out THEN Append(@, i) ELSE @]

InitBatch ==
    /\ batch \in [which : {"commands", "centrack"},
                  fields : SeqsUpTo(BatchFields, MaxFields),
                  channel : {1},
                  out : BOOLEAN]
    /\ cli = CliStart
    /\ InitAssignIdle
    /\ InitMetricsIdle
    /\ InitScoreIdle
    /\ InitFrequencyIdle
    /\ InitGeometryIdle
    /\ InitModelIdle
    /\ InitDetectIdle

CliCommandsField ==
    /\ batch.which = "commands"
    /\ cli.pc = "loop"
    /\ cli.i <= Len(batch.fields)
    /\ cli' = commands_iteration(cli, cli.i, batch.fields[cli.i], batch.channel)
    /\ UNCHANGED <<batch, assign_vars, metrics_vars, score_vars, frequency_vars,
                   geometry_vars, model_vars, detect_vars>>

CliCommandsFinish ==
    /\ batch.which = "commands"
    /\ cli.pc = "loop"
    /\ cli.i > Len(batch.fields)
    /\ cli' = commands_finish(cli)
    /\ UNCHANGED <<batch, assign_vars, metrics_vars, score_vars, frequency_vars,
                   geometry_vars, model_vars, detect_vars>>

CliCentrackField ==
    /\ batch.which = "centrack"
    /\ cli.pc = "loop"
    /\ cli.i <= Len(batch.fields)
    /\ cli' = centrack_iteration(cli, cli.i, batch.fields[cli.i], batch.out)
    /\ UNCHANGED <<batch, assign_vars, metrics_vars, score_vars, frequency_vars,
                   geometry_vars, model_vars, detect_vars>>

\* The loop of centrack/score.py is the last statement of its cli.
CliCentrackFinish ==
    /\ batch.which = "centrack"
    /\ cli.pc = "loop"
    /\ cli.i > Len(batch.fields)
    /\ cli' = [cli EXCEPT !.pc = "done"]
    /\ UNCHANGED <<batch, assign_vars, metrics_vars, score_vars, frequency_vars,
                   geometry_vars, model_vars, detect_vars>>

NextBatch ==
    \/ CliCommandsField
    \/ CliCommandsFinish
    \/ CliCentrackField
    \/ CliCentrackFinish

SpecBatch == InitBatch /\ [][NextBatch]_vars

\* The interpreter runs the loop on: an iteration that can be taken is taken.
SpecBatchLive == SpecBatch /\ WF_vars(NextBatch)

\* Field j has been gone through by the loop.
Processed(j) == j < cli.i

\* assign raises the empty-input error on field j.
EmptyInput(j) ==
    /\ j \in Indices(batch.fields)
    /\ Len(batch.fields[j].foci) = 0 \/ Len(batch.fields[j].nuclei) = 0

\* Field j was gone through and assign raised the empty-input error on it.
SkippedField(j) == Processed(j) /\ EmptyInput(j)

\* The loop stopped on a file it cannot read as a field: an array that is
\* not 3-dimensional, or a marker that is not in the file name.
StoppedOnUnreadableField ==
    /\ cli.pc = "ValueError"
    /\ cli.i \in Indices(batch.fields)
    /\ IF batch.which = "commands" THEN batch.fields[cli.i].ndim # 3
       ELSE ~batch.fields[cli.i].marker_known

LinesAbout(j, msg) == { m \in Indices(cli.log) : cli.log[m].field = j /\ cli.log[m].msg = msg }

\* The records of fields 1..n that were not skipped, in order.
RECURSIVE RecordsUpTo(_)
RecordsUpTo(n) ==
    IF n = 0 THEN <<>>
    ELSE RecordsUpTo(n - 1) \o
         (IF EmptyInput(n) THEN <<>>
          ELSE pairs_of_field(n, batch.channel,
                   assign_commands_score(batch.fields[n].foci,
                                         batch.fields[n].nuclei).assigned))

C21_Safety ==
    /\ \A j \in Indices(batch.fields) :
           SkippedField(j) =>
               /\ Cardinality(LinesAbout(j, "No foci/nuclei detected")) = 1
               /\ \A m \in LinesAbout(j, "No foci/nuclei detected") :
                      cli.log[m].level = "warning"
               /\ \A p \in Indices(cli.pairs) : cli.pairs[p].fov # j
               /\ \A p \in Indices(cli.images) : cli.images[p] # j
    /\ cli.pc \in {"loop", "done"} \/ StoppedOnUnreadableField
    /\ \A j \in Indices(batch.fields) :
           Processed(j) => Cardinality(LinesAbout(j, "Loading")) = 1
    /\ cli.pc = "loop" => cli.results = <<>>
    /\ cli.pc = "done" =>
           /\ \A j \in Indices(batch.fields) : Processed(j)
           /\ cli.results = IF batch.which = "commands"
                            THEN <<RecordsUpTo(Len(batch.fields))>>
                            ELSE <<>>

C22_SkippedCountReported ==
    cli.pc = "done" =>
        LET k == Cardinality({ j \in Indices(batch.fields) : SkippedField(j) })
        IN \/ \E m \in Indices(cli.log) :
                  /\ cli.log[m].msg = "skipped fields"
                  /\ cli.log[m].field = k
           \/ \E t \in Indices(cli.results) :
                  \E p \in Indices(cli.results[t]) :
                      "skipped" \in DOMAIN cli.results[t][p]

---------------------------------------------------------------------------
(* get_model of detectors.py (the same function stands in                  *)
(* commands/score.py and centrack/score.py), under                         *)
(* @functools.lru_cache(maxsize=None).  A SpotNet instance is named by the *)
(* rank of its construction: 1 is the first constructed.                   *)

ModelPaths == { "models/a", "models/b", "models/none" }

\* The cache of lru_cache: the keys in the order they were stored, each
\* with its value.
cache_keys(c) == { c[i].key : i \in Indices(c) }

cache_get_miss(c, key) == <<>>

\* cache_get(key, sentinel): the value stored for the key, none on a miss.
cache_get(c, key) ==
    IF key \in cache_keys(c)
    THEN <<c[CHOOSE i \in Indices(c) : c[i].key = key].value>>
    ELSE <<>>

\* cache[key] = result
cache_put(c, key, value) ==
    IF key \in cache_keys(c)
    THEN [i \in Indices(c) |-> IF c[i].key = key THEN [key |-> key, value |-> value] ELSE c[i]]
    ELSE Append(c, [key |-> key, value |-> value])

\* The body of get_model: FileNotFoundError unless the path is a directory,
\* else a SpotNet constructed of it.
get_model_body(model, dirs_, constructed_) ==
    IF model \notin dirs_
    THEN [raised |-> "FileNotFoundError", result |-> 0, constructed |-> constructed_]
    ELSE [raised |-> "none", result |-> Len(constructed_) + 1,
          constructed |-> Append(constructed_, model)]

\* A whole call get_model(model) with no other caller at work: the cached
\* value on a hit; on a miss the body is run and its value stored, an
\* exception leaving the cache as it is.
get_model(model, dirs_, cache_, constructed_) ==
    LET hit == cache_get(cache_, model)
        run == get_model_body(model, dirs_, constructed_)
    IN IF hit # <<>>
       THEN [raised |-> "none", result |-> hit[1],
             cache |-> cache_, constructed |-> constructed_]
       ELSE IF run.raised # "none"
       THEN [raised |-> run.raised, result |-> 0,
             cache |-> cache_, constructed |-> constructed_]
       ELSE [raised |-> "none", result |-> run.result,
             cache |-> cache_put(cache_, model, run.result),
             constructed |-> run.constructed]

InitModel ==
    /\ dirs \in SUBSET ModelPaths
    /\ cache = <<>>
    /\ constructed = <<>>
    /\ calls = <<>>
    /\ threads = <<>>
    /\ InitAssignIdle
    /\ InitMetricsIdle
    /\ InitScoreIdle
    /\ InitFrequencyIdle
    /\ InitGeometryIdle
    /\ InitBatchIdle
    /\ InitDetectIdle

\* get_model is called, the calls coming one after the other.
CallGetModel ==
    /\ Len(calls) < MaxModelCalls
    /\ \E model \in ModelPaths :
           LET r == get_model(model, dirs, cache, constructed)
           IN /\ calls' = Append(calls, [model |-> model, raised |-> r.raised,
                                         result |-> r.result])
              /\ cache' = r.cache
              /\ constructed' = r.constructed
    /\ UNCHANGED <<dirs, threads>>
    /\ UNCHANGED <<assign_vars, metrics_vars, score_vars, frequency_vars,
                   geometry_vars, batch_vars, detect_vars>>

NextModel == CallGetModel

SpecModel == InitModel /\ [][NextModel]_vars

\* The ranks of the constructions made of a path.
ConstructionsOf(path) == { i \in Indices(constructed) : constructed[i] = path }

\* C23: in a sequence of get_model calls the model of a path is constructed
\* at most once; a call with a path that is a directory returns the one
\* instance constructed of that path, which the first such call constructed;
\* a call with a path that is not a directory raises FileNotFoundError and
\* leaves no entry for the path in the cache.
C23_LoadedOncePerPath ==
    /\ \A path \in ModelPaths : Cardinality(ConstructionsOf(path)) <= 1
    /\ \A k \in Indices(calls) :
           IF calls[k].model \in dirs
           THEN /\ calls[k].raised = "none"
                /\ ConstructionsOf(calls[k].model) = {calls[k].result}
                /\ \A l \in Indices(calls) :
                       calls[l].model = calls[k].model => calls[l].result = calls[k].result
           ELSE /\ calls[k].raised = "FileNotFoundError"
                /\ calls[k].model \notin cache_keys(cache)
                /\ ConstructionsOf(calls[k].model) = {}
    /\ Len(constructed) = Cardinality({ calls[k].model : k \in Indices(calls) } \cap dirs)

\* A path that is a directory was asked for three times: it was loaded by
\* the first call and the two later calls returned that instance.
C23_Witness ==
    /\ Len(calls) = 3
    /\ calls[1].model = calls[3].model
    /\ calls[2].model = calls[1].model
    /\ calls[1].raised = "none"
    /\ calls[3].result = calls[1].result
    /\ Len(constructed) = 1

---------------------------------------------------------------------------
(* get_model called by concurrent callers.  The wrapper of lru_cache looks *)
(* the key up, runs the body on a miss, then stores the value; another     *)
(* thread may run between any two of these.                                *)

Callers == 1..MaxCallers

InitModelThreads ==
    /\ dirs \in SUBSET ModelPaths
    /\ cache = <<>>
    /\ constructed = <<>>
    /\ calls = <<>>
    /\ threads = [t \in Callers |-> [pc |-> "idle", model |-> "", result |-> 0]]
    /\ InitAssignIdle
    /\ InitMetricsIdle
    /\ InitScoreIdle
    /\ InitFrequencyIdle
    /\ InitGeometryIdle
    /\ InitBatchIdle
    /\ InitDetectIdle

\* A caller enters the wrapper: result = cache_get(key, sentinel).
ThreadLookup(t) ==
    /\ threads[t].pc = "idle"
    /\ \E model \in ModelPaths :
           LET hit == cache_get(cache, model)
           IN threads' = [threads EXCEPT ![t] =
                  IF hit # <<>>
                  THEN [pc |-> "returned", model |-> model, result |-> hit[1]]
                  ELSE [pc |-> "miss", model |-> model, result |-> 0]]
    /\ UNCHANGED <<dirs, cache, constructed, calls>>
    /\ UNCHANGED <<assign_vars, metrics_vars, score_vars, frequency_vars,
                   geometry_vars, batch_vars, detect_vars>>

\* After a miss: result = user_function(*args, **kwds).
ThreadBody(t) ==
    /\ threads[t].pc = "miss"
    /\ LET run == get_model_body(threads[t].model, dirs, constructed)
       IN /\ threads' = [threads EXCEPT ![t] =
                 IF run.raised # "none"
                 THEN [@ EXCEPT !.pc = run.raised]
                 ELSE [@ EXCEPT !.pc = "store", !.result = run.result]]
          /\ constructed' = run.constructed
    /\ UNCHANGED <<dirs, cache, calls>>
    /\ UNCHANGED <<assign_vars, metrics_vars, score_vars, frequency_vars,
                   geometry_vars, batch_vars, detect_vars>>

\* cache[key] = result; return result
ThreadStore(t) ==
    /\ threads[t].pc = "store"
    /\ cache' = cache_put(cache, threads[t].model, threads[t].result)
    /\ threads' = [threads EXCEPT ![t].pc = "returned"]
    /\ UNCHANGED <<dirs, constructed, calls>>
    /\ UNCHANGED <<assign_vars, metrics_vars, score_vars, frequency_vars,
                   geometry_vars, batch_vars, detect_vars>>

NextModelThreads ==
    \E t \in Callers : ThreadLookup(t) \/ ThreadBody(t) \/ ThreadStore(t)

SpecModelThreads == InitModelThreads /\ [][NextModelThreads]_vars

\* C24: callers that asked concurrently for the same path and have returned
\* hold the same instance, and the model of a path is constructed once.
C24_ConcurrentCallersShareInstance ==
    /\ \A t, u \in Callers :
           (/\ threads[t].pc = "returned"
            /\ threads[u].pc = "returned"
            /\ threads[t].model = threads[u].model)
               => threads[t].result = threads[u].result
    /\ \A path \in ModelPaths : Cardinality(ConstructionsOf(path)) <= 1

---------------------------------------------------------------------------
(* The detectors: extract_foci, extract_nuclei of cenfind/core/detectors.py *)
(* with resize_image and draw_foci of outline.py, and the detectors of      *)
(* centrack/commands/score.py.  A plane is known by its shape (rows,        *)
(* columns); a mask is the set of its pixels that are set.                  *)

\* Shapes of planes: the usual 2048 x 2048, a smaller square one, one
\* smaller than the tile, and two that are not square.
PlaneShapes ==
    { <<2048, 2048>>, <<600, 600>>, <<100, 100>>, <<2048, 600>>, <<600, 2048>> }

\* Coordinates the point service may return on a plane of the shape: two
\* close to each other, one on the first row, one on the last row.
ServicePoints(shape) ==
    { <<50, 50>>, <<50, 53>>, <<0, 20>>, <<shape[1] - 1, 20>> }

\* The labels a label map of the segmentation service may hold; 0 is the
\* background.
LabelSets == { {0}, {0, 1}, {0, 1, 2} }

\* Point(position, channel, index, label), parent not set; its centre is
\* its position.
Point(position, channel, index, label) ==
    [position |-> position, channel |-> channel, index |-> index,
     label |-> label, parent |-> <<>>]

\* skimage.draw.disk((r, c), radius): the pixels at a distance below the
\* radius of the centre, whether or not they are in the image.
disk(center, radius) ==
    { <<center[1] + dr, center[2] + dc>> :
        <<dr, dc>> \in { o \in (-radius..radius) \X (-radius..radius) :
                            o[1] * o[1] + o[2] * o[2] < radius * radius } }

\* An index of a numpy axis of n items: a negative one counts from the end.
wrap_index(i, n) == IF i < 0 THEN i + n ELSE i

index_ok(i, n) == -n <= i /\ i < n

\* draw_foci(data, foci, radius): mask[rr, cc] = 250 for the disk of every
\* focus; a disk with an index out of bounds raises IndexError before
\* anything is written and the focus is passed over.
draw_foci(shape, foci_, radius) ==
    UNION { LET d == disk(foci_[i].position, radius)
            IN IF \A q \in d : index_ok(q[1], shape[1]) /\ index_ok(q[2], shape[2])
               THEN { <<wrap_index(q[1], shape[1]), wrap_index(q[2], shape[2])>> : q \in d }
               ELSE {}
            : i \in Indices(foci_) }

\* Pixels that touch, by a side or a corner.
Adjacent(a, b) == Abs(a[1] - b[1]) <= 1 /\ Abs(a[2] - b[2]) <= 1

RECURSIVE grow(_, _, _)
grow(region, frontier, rest) ==
    LET new == { q \in rest : \E f \in frontier : Adjacent(f, q) }
    IN IF new = {} THEN region ELSE grow(region \cup new, new, rest \ new)

\* The first pixel of a set in row-major order.
RasterMin(S) ==
    CHOOSE a \in S : \A b \in S : a[1] < b[1] \/ (a[1] = b[1] /\ a[2] <= b[2])

\* measure.label(mask) with measure.regionprops: the connected components
\* of the mask, numbered from 1 in the row-major order of their first pixel.
RECURSIVE measure_label(_)
measure_label(mask) ==
    IF mask = {} THEN <<>>
    ELSE LET first == RasterMin(mask)
             region == grow({first}, {first}, mask \ {first})
         IN <<region>> \o measure_label(mask \ region)

\* centrosomes_map[p]: the number of the component of pixel p, 0 outside.
map_at(regions, q) ==
    IF \E k \in Indices(regions) : q \in regions[k]
    THEN CHOOSE k \in Indices(regions) : q \in regions[k]
    ELSE 0

RECURSIVE SumOf(_, _)
SumOf(S, axis) ==
    IF S = {} THEN 0
    ELSE LET q == CHOOSE x \in S : TRUE IN q[axis] + SumOf(S \ {q}, axis)

\* tuple(int(c) for c in region.centroid)
int_centroid(region) ==
    <<SumOf(region, 1) \div Cardinality(region), SumOf(region, 2) \div Cardinality(region)>>

\* regions[k] of a Python list, k = -1 being the last item; none when the
\* index is out of range.
list_item(regions, k) ==
    IF k >= 0 /\ k < Len(regions) THEN <<regions[k + 1]>>
    ELSE IF k < 0 /\ -k <= Len(regions) THEN <<regions[Len(regions) + k + 1]>>
    ELSE <<>>

\* extract_foci(field, foci_model_file, channel, prob_threshold, min_distance),
\* the point service returning points_preds for the plane of the shape.
extract_foci(shape, points_preds, channel, min_distance) ==
    LET foci_ == [i \in Indices(points_preds) |->
                     Point(points_preds[i], channel, i - 1, "Centriole")]
        centrosomes_mask == draw_foci(shape, foci_, min_distance * 2)
        centrosomes_centroids == measure_label(centrosomes_mask)
        region_of(f) == list_item(centrosomes_centroids,
                                  map_at(centrosomes_centroids, f.position) - 1)
    IN IF \E i \in Indices(foci_) : region_of(foci_[i]) = <<>>
       THEN [raised |-> "IndexError", foci |-> <<>>]
       ELSE [raised |-> "none",
             foci |-> [i \in Indices(foci_) |->
                 [foci_[i] EXCEPT !.parent =
                     <<Point(int_centroid(region_of(foci_[i])[1]), channel, 0, "Centrosome")>>]]]

\* The shape of what cv2.resize(src, dsize=...) returns: dsize is (width,
\* height), a shape is (rows, columns).
cv2_resize(dsize) == <<dsize[2], dsize[1]>>

DefaultFactor == 256

\* The factors resize_image is called with.
Factors == { 128, DefaultFactor }

\* resize_image(data, factor): the shape of the array returned.
resize_image(shape, factor) ==
    LET height == shape[1]
        width == shape[2]
        shrinkage_factor == height \div factor
    IN IF shrinkage_factor = 0
       THEN [raised |-> "ZeroDivisionError", shape |-> <<>>]
       ELSE LET height_scaled == height \div shrinkage_factor
                width_scaled == width \div shrinkage_factor
            IN [raised |-> "none", shape |-> cv2_resize(<<height_scaled, width_scaled>>)]

\* The labels of a label map in the order of np.unique.
RECURSIVE unique(_)
unique(ids) ==
    IF ids = {} THEN <<>> ELSE <<MinOf(ids)>> \o unique(ids \ {MinOf(ids)})

is_background_never(nucleus_label) == FALSE

\* if nucleus_label == 0: continue
is_background(nucleus_label) == nucleus_label = 0

\* The loop over labels_id of extract_nuclei: Contour(contour[0], channel,
\* "Nucleus", nucleus_index - 1), the contour being that of the label.
RECURSIVE nuclei_of_labels(_, _, _)
nuclei_of_labels(labels_id, nucleus_index, channel) ==
    IF nucleus_index >= Len(labels_id) THEN <<>>
    ELSE LET nucleus_label == labels_id[nucleus_index + 1]
             rest == nuclei_of_labels(labels_id, nucleus_index + 1, channel)
         IN IF is_background(nucleus_label) THEN rest
            ELSE << [contour |-> <<"contour of label", nucleus_label>>,
                     args |-> <<channel, "Nucleus", nucleus_index - 1>>] >> \o rest

\* extract_nuclei(field, channel, model), the segmentation service
\* returning a label map of the shape of its input that holds the labels
\* ids: the nuclei, with the shape of the label map after cv2.resize.
extract_nuclei(shape, ids, channel) ==
    LET data_resized == resize_image(shape, DefaultFactor)
    IN IF data_resized.raised # "none"
       THEN [raised |-> data_resized.raised, served |-> FALSE,
             labels_shape |-> <<>>, nuclei |-> <<>>]
       ELSE LET labels_shape == cv2_resize(shape)
            IN [raised |-> "none", served |-> TRUE, labels_shape |-> labels_shape,
                nuclei |-> IF labels_shape[1] = 0 THEN <<>>
                           ELSE nuclei_of_labels(unique(ids), 0, channel)]

TileSide == 256

UpsampledSide == 2048

\* NucleiDetector.detect of commands/score.py (NucleiStardistDetector.detect
\* of centrack/score.py is the same): the plane resized to the tile, the
\* label map resized to 2048 x 2048, a Contour per label but 0.
NucleiDetector_detect(shape, ids) ==
    LET transformed == cv2_resize(<<TileSide, TileSide>>)
        nuclei_detected == cv2_resize(<<UpsampledSide, UpsampledSide>>)
        cnts == SelectSeq(unique(ids), LAMBDA nucleus_id : nucleus_id # 0)
    IN [raised |-> "none", tile_shape |-> transformed, labels_shape |-> nuclei_detected,
        nuclei |-> [c_id \in Indices(cnts) |->
                       [contour |-> <<"contour of label", cnts[c_id]>>,
                        label |-> "Nucleus", idx |-> c_id - 1, confidence |-> -1]]]

\* CentriolesDetector.detect of commands/score.py (FocusDetector.detect of
\* centrack/score.py is the same): Centre((y, x), f_id, organelle, -1) for
\* f_id, (x, y) in enumerate(foci[1]).
CentriolesDetector_detect(points_preds) ==
    [f_id \in Indices(points_preds) |->
        LET x == points_preds[f_id][1]
            y == points_preds[f_id][2]
        IN Annotation_Centre(<<y, x>>, f_id - 1, "Centriole", -1)]

NotDetected == [foci |-> <<>>, nuclei |-> <<>>, resized |-> <<>>,
                centrioles |-> <<>>, nuclei_commands |-> <<>>]

InitDetect ==
    /\ \E shape \in PlaneShapes :
           service \in [shape : {shape},
                        points : SeqsUpTo(ServicePoints(shape), MaxDetections),
                        labels : LabelSets,
                        channel : {1},
                        min_distance : {2}]
    /\ detected = NotDetected
    /\ InitAssignIdle
    /\ InitMetricsIdle
    /\ InitScoreIdle
    /\ InitFrequencyIdle
    /\ InitGeometryIdle
    /\ InitBatchIdle
    /\ InitModelIdle

\* extract_foci on every input of the exploration, computed once.
ExtractFociOf ==
    [shape \in PlaneShapes |->
        [points_preds \in SeqsUpTo(ServicePoints(shape), MaxDetections) |->
            extract_foci(shape, points_preds, 1, 2)]]

CallExtractFoci ==
    /\ detected.foci = <<>>
    /\ service.channel = 1 /\ service.min_distance = 2
    /\ detected' = [detected EXCEPT !.foci =
           <<ExtractFociOf[service.shape][service.points]>>]
    /\ UNCHANGED <<service, assign_vars, metrics_vars, score_vars, frequency_vars,
                   geometry_vars, batch_vars, model_vars>>

CallExtractNuclei ==
    /\ detected.nuclei = <<>>
    /\ detected' = [detected EXCEPT !.nuclei =
           <<extract_nuclei(service.shape, service.labels, service.channel)>>]
    /\ UNCHANGED <<service, assign_vars, metrics_vars, score_vars, frequency_vars,
                   geometry_vars, batch_vars, model_vars>>

CallResizeImage ==
    /\ detected.resized = <<>>
    /\ \E factor \in Factors :
           detected' = [detected EXCEPT !.resized =
               << [factor |-> factor, out |-> resize_image(service.shape, factor)] >>]
    /\ UNCHANGED <<service, assign_vars, metrics_vars, score_vars, frequency_vars,
                   geometry_vars, batch_vars, model_vars>>

CallCentriolesDetector ==
    /\ detected.centrioles = <<>>
    /\ detected' = [detected EXCEPT !.centrioles =
           << [raised |-> "none", foci |-> CentriolesDetector_detect(service.points)] >>]
    /\ UNCHANGED <<service, assign_vars, metrics_vars, score_vars, frequency_vars,
                   geometry_vars, batch_vars, model_vars>>

CallNucleiDetector ==
    /\ detected.nuclei_commands = <<>>
    /\ detected' = [detected EXCEPT !.nuclei_commands =
           <<NucleiDetector_detect(service.shape, service.labels)>>]
    /\ UNCHANGED <<service, assign_vars, metrics_vars, score_vars, frequency_vars,
                   geometry_vars, batch_vars, model_vars>>

NextDetect ==
    \/ CallExtractFoci
    \/ CallExtractNuclei
    \/ CallResizeImage
    \/ CallCentriolesDetector
    \/ CallNucleiDetector

SpecDetect == InitDetect /\ [][NextDetect]_vars

\* The mask of the disks of all the points, as far as they lie in the plane.
DiskMask ==
    UNION { { q \in disk(service.points[i], 2 * service.min_distance) :
                /\ 0 <= q[1] /\ q[1] < service.shape[1]
                /\ 0 <= q[2] /\ q[2] < service.shape[2] } :
            i \in Indices(service.points) }

\* The connected component of the mask that holds pixel q.
ComponentOf(q, mask) == grow({q}, {q}, mask \ {q})

\* C25: extract_foci returns, for every point of the service, a focus with
\* a parent, the parent standing at the centroid of the connected component
\* of the disk mask that holds the focus; foci of one component have the
\* same parent.
C25_ParentIsCentroidOfOwnComponent ==
    \A k \in Indices(detected.foci) :
        /\ detected.foci[k].raised = "none"
        /\ Len(detected.foci[k].foci) = Len(service.points)
        /\ \A i \in Indices(detected.foci[k].foci) :
               LET f == detected.foci[k].foci[i]
               IN /\ f.parent # <<>>
                  /\ f.parent[1].position = int_centroid(ComponentOf(f.position, DiskMask))
                  /\ \A j \in Indices(detected.foci[k].foci) :
                         detected.foci[k].foci[j].position \in ComponentOf(f.position, DiskMask)
                             => detected.foci[k].foci[j].parent = f.parent

\* C26: extract_foci returns the empty list, without raising, when the
\* point service returns no coordinate; extract_nuclei returns the empty
\* list, without raising, when the label map of the segmentation service
\* holds no label but 0.
C26_NoDetectionGivesEmptyList ==
    /\ \A k \in Indices(detected.foci) :
           service.points = <<>> =>
               /\ detected.foci[k].raised = "none"
               /\ detected.foci[k].foci = <<>>
    /\ \A k \in Indices(detected.nuclei) :
           (detected.nuclei[k].served /\ service.labels = {0}) =>
               /\ detected.nuclei[k].raised = "none"
               /\ detected.nuclei[k].nuclei = <<>>

\* Both detectors have returned on a plane for which the services found
\* nothing.
C26_Witness ==
    /\ service.points = <<>>
    /\ service.labels = {0}
    /\ Len(detected.foci) = 1
    /\ Len(detected.nuclei) = 1
    /\ detected.nuclei[1].served
    /\ detected.nuclei[1].nuclei = <<>>

\* C27: resize_image returns, without raising, an array of factor rows and
\* factor columns.
C27_ResizeGivesSquareTile ==
    \A k \in Indices(detected.resized) :
        /\ detected.resized[k].out.raised = "none"
        /\ detected.resized[k].out.shape
               = <<detected.resized[k].factor, detected.resized[k].factor>>

\* C28: the label map the blob detectors resize has the shape of the plane.
C28_LabelMapHasShapeOfPlane ==
    /\ \A k \in Indices(detected.nuclei) :
           detected.nuclei[k].served => detected.nuclei[k].labels_shape = service.shape
    /\ \A k \in Indices(detected.nuclei_commands) :
           detected.nuclei_commands[k].labels_shape = service.shape

\* C29: the k-th focus of a point detector stands at the k-th coordinate of
\* the service, as the service gave it, with index k - 1 and, from the
\* detectors of centrack, confidence -1.
C29_PositionIsServiceCoordinate ==
    /\ \A k \in Indices(detected.centrioles) :
           /\ Len(detected.centrioles[k].foci) = Len(service.points)
           /\ \A i \in Indices(detected.centrioles[k].foci) :
                  /\ detected.centrioles[k].foci[i].position = service.points[i]
                  /\ detected.centrioles[k].foci[i].idx = i - 1
                  /\ detected.centrioles[k].foci[i].confidence = -1
    /\ \A k \in Indices(detected.foci) :
           \A i \in Indices(detected.foci[k].foci) :
               /\ detected.foci[k].foci[i].position = service.points[i]
               /\ detected.foci[k].foci[i].index = i - 1

---------------------------------------------------------------------------
(* What assign of src/cenfind/core/measure.py leaves to its caller *)

\* C30: after every call of measure.assign the caller's nuclei list holds
\* the elements it held, in the order it held them, with their fields as
\* they were: the pairs returned list exactly those nuclei, last first; the
\* foci paired are elements of the caller's foci list, unchanged.
C30_AssignLeavesArgumentsAlone ==
    \A k \in Indices(log_measure) :
        /\ log_measure[k].raised = "none"
        /\ Len(log_measure[k].pairs) = Len(nuclei)
        /\ \A p \in Indices(log_measure[k].pairs) :
               /\ log_measure[k].pairs[p][1] = nuclei[Len(nuclei) - p + 1]
               /\ Len(log_measure[k].pairs[p][2]) <= Len(foci)
               /\ \A q \in Indices(log_measure[k].pairs[p][2]) :
                      \E i \in Indices(foci) : log_measure[k].pairs[p][2][q] = foci[i]

\* assign has returned the pairs of two different nuclei, the last nucleus
\* of the caller's list first, and paired a focus with one of them.
C30_Witness ==
    /\ Len(log_measure) >= 1
    /\ Len(nuclei) = 2
    /\ nuclei[1] # nuclei[2]
    /\ log_measure[1].pairs[1][1] = nuclei[2]
    /\ log_measure[1].pairs[2][1] = nuclei[1]
    /\ \E p \in Indices(log_measure[1].pairs) : log_measure[1].pairs[p][2] # <<>>

====
